---- MODULE Spec2Model ----
(***************************************************************************)
(* pipoe: the dependency resolution engine of src/pipoe/pipoe.py.          *)
(*                                                                         *)
(* Strings are sequences of one-character strings, so that splitting,      *)
(* digit tests and lexical order are computed the way Python computes      *)
(* them.  Python's None is the one-element sequence <<"None">>, which is   *)
(* no string of characters.                                                *)
(***************************************************************************)
EXTENDS Integers, Sequences, FiniteSets, TLC

(***************************************************************************)
(* Bounds of the model.                                                    *)
(***************************************************************************)
\* lines of the requirements file
MaxRoots == 2
\* lines of the existing-packages file
MaxSeed == 1

(***************************************************************************)
(* Python values.                                                          *)
(***************************************************************************)
None == <<"None">>

Digits == {"0", "1", "2", "3", "4", "5", "6", "7", "8", "9"}

\* ord() of the characters that occur in the model's strings
Ord(c) ==
    CASE c = "*" -> 42
      [] c = "-" -> 45
      [] c = "." -> 46
      [] c = "0" -> 48
      [] c = "1" -> 49
      [] c = "2" -> 50
      [] c = "3" -> 51
      [] c = "4" -> 52
      [] c = "5" -> 53
      [] c = "6" -> 54
      [] c = "7" -> 55
      [] c = "8" -> 56
      [] c = "9" -> 57
      [] c = "[" -> 91
      [] c = "]" -> 93
      [] c = "a" -> 97
      [] c = "b" -> 98
      [] c = "c" -> 99
      [] OTHER -> 120

\* bool(s) for s a string or None
Truthy(s) == s # None /\ s # <<>>

\* str.isdigit()
IsDigit(s) == s # <<>> /\ \A i \in 1..Len(s) : s[i] \in Digits

\* int(s) for a string of digits
RECURSIVE ToInt(_)
ToInt(s) ==
    IF s = <<>> THEN 0
    ELSE 10 * ToInt(SubSeq(s, 1, Len(s) - 1)) + (Ord(s[Len(s)]) - 48)

\* str.replace(old, new) for single characters
StrReplace(s, old, new) == [i \in 1..Len(s) |-> IF s[i] = old THEN new ELSE s[i]]

\* str.split(sep) for a single-character separator
RECURSIVE StrSplit(_, _)
StrSplit(s, sep) ==
    IF \A i \in 1..Len(s) : s[i] # sep THEN <<s>>
    ELSE LET k == CHOOSE i \in 1..Len(s) :
                     s[i] = sep /\ \A j \in 1..(i - 1) : s[j] # sep
         IN  <<SubSeq(s, 1, k - 1)>> \o StrSplit(SubSeq(s, k + 1, Len(s)), sep)

\* s < t for two Python strings (lexical, by code point)
RECURSIVE StrLess(_, _)
StrLess(s, t) ==
    IF t = <<>> THEN FALSE
    ELSE IF s = <<>> THEN TRUE
    ELSE IF s[1] # t[1] THEN Ord(s[1]) < Ord(t[1])
    ELSE StrLess(Tail(s), Tail(t))

(***************************************************************************)
(* compare_versions.  The result is [exc, val]: exc says that the call     *)
(* raised (AttributeError on a None second operand, TypeError on an int    *)
(* compared with a str), val is the returned -1, 0 or 1 otherwise.         *)
(***************************************************************************)
Returned(v) == [exc |-> FALSE, val |-> v]
Raised == [exc |-> TRUE, val |-> 0]

\* one element of normalize(): int(part) if part.isdigit() else part
NormPart(part) ==
    IF IsDigit(part) THEN [int |-> TRUE, n |-> ToInt(part), s |-> <<>>]
    ELSE [int |-> FALSE, n |-> 0, s |-> part]

normalize(version) ==
    LET parts == StrSplit(StrReplace(version, "-", "."), ".")
    IN  [i \in 1..Len(parts) |-> NormPart(parts[i])]

\* the loop over the parts that goes on past the shorter list: the version
\* with parts left over is the greater
RECURSIVE PaddedCompareParts(_, _, _)
PaddedCompareParts(p1, p2, i) ==
    IF i > Len(p1) /\ i > Len(p2) THEN Returned(0)
    ELSE IF i > Len(p1) THEN Returned(-1)
    ELSE IF i > Len(p2) THEN Returned(1)
    ELSE IF p1[i] = p2[i] THEN PaddedCompareParts(p1, p2, i + 1)
    ELSE IF p1[i].int # p2[i].int THEN Raised
    ELSE IF p1[i].int THEN
        (IF p1[i].n < p2[i].n THEN Returned(-1) ELSE Returned(1))
    ELSE (IF StrLess(p1[i].s, p2[i].s) THEN Returned(-1) ELSE Returned(1))

\* the loop over zip(v1_parts, v2_parts), from position i on
RECURSIVE CompareParts(_, _, _)
CompareParts(p1, p2, i) ==
    IF i > Len(p1) \/ i > Len(p2) THEN Returned(0)
    ELSE IF p1[i] = p2[i] THEN CompareParts(p1, p2, i + 1)
    ELSE IF p1[i].int # p2[i].int THEN Raised
    ELSE IF p1[i].int THEN
        (IF p1[i].n < p2[i].n THEN Returned(-1) ELSE Returned(1))
    ELSE (IF StrLess(p1[i].s, p2[i].s) THEN Returned(-1) ELSE Returned(1))

compare_versions(version1, version2) ==
    IF ~Truthy(version1) THEN Returned(-1)
    ELSE IF version2 = None THEN Raised
    ELSE CompareParts(normalize(version1), normalize(version2), 1)

(***************************************************************************)
(* Dependency specifiers.  A parsed specifier is the tuple pep508_parser   *)
(* returns, as a record: name, versions (the list of <<relation, version>> *)
(* clauses) and marker (<<>> for none, <<op, lhs, rhs>> for a comparison,  *)
(* <<"and", m1, m2>> for a conjunction).                                   *)
(***************************************************************************)
Dependency(name, version, extra) == [name |-> name, version |-> version, extra |-> extra]

decide_version(spec) ==
    IF spec.versions # <<>> THEN
        LET relation == spec.versions[1][1]
            version == spec.versions[1][2]
        IN  IF relation = "==" THEN version
            ELSE IF relation = ">=" THEN None
            ELSE IF relation = "<=" THEN version
            ELSE None
    ELSE None

decide_extra(spec) ==
    LET extra == spec.marker
    IN  IF extra # <<>> THEN
            (IF extra[1] = "and" THEN extra[3][3] ELSE extra[3])
        ELSE None

parse_requires_dist(requires_dist) ==
    Dependency(requires_dist.name, decide_version(requires_dist),
               decide_extra(requires_dist))

\* get_package_dependencies without the test of d.extra and follow_extras
RECURSIVE KeepExtraDependencies(_, _)
KeepExtraDependencies(requires_dist, follow) ==
    IF requires_dist = <<>> THEN <<>>
    ELSE <<parse_requires_dist(Head(requires_dist))>>
         \o KeepExtraDependencies(Tail(requires_dist), follow)

RECURSIVE get_package_dependencies(_, _)
get_package_dependencies(requires_dist, follow) ==
    IF requires_dist = <<>> THEN <<>>
    ELSE LET d == parse_requires_dist(Head(requires_dist))
             rest == get_package_dependencies(Tail(requires_dist), follow)
         IN  IF Truthy(d.extra) /\ ~follow THEN rest ELSE <<d>> \o rest

(***************************************************************************)
(* Packages.                                                               *)
(***************************************************************************)
Package(name, version, license, dependencies) ==
    [name |-> name, version |-> version, license |-> license,
     dependencies |-> dependencies]

\* package.split('[')[0]
PackageName(package) == StrSplit(package, "[")[1]

(***************************************************************************)
(* The registry snapshot: what the JSON endpoints of the registry answer.  *)
(* registry[name] is the list of the releases of a package, in the order   *)
(* of the "releases" object; the unversioned endpoint answers with the     *)
(* metadata of the last one.  A release holds its version, its files       *)
(* ([packagetype, ext, size]), its requires_dist (None when the registry   *)
(* gives none) and metadata, the requires_dist embedded in its artifact.   *)
(***************************************************************************)
NameA == <<"a">>
NameB == <<"b">>
NameC == <<"c">>
Names == {NameA, NameB, NameC}

V10 == <<"1", ".", "0">>
V20 == <<"2", ".", "0">>
VWild == <<"1", ".", "*">>

Requirement(name, versions, marker) == [name |-> name, versions |-> versions, marker |-> marker]
Plain(name) == Requirement(name, <<>>, <<>>)
Pinned(name, version) == Requirement(name, <<(<<"==", version>>)>>, <<>>)
AtLeast(name, version) == Requirement(name, <<(<<">=", version>>)>>, <<>>)
WithExtra(name, tag) == Requirement(name, <<>>, <<"==", "extra", tag>>)
WithPython(name, bound) == Requirement(name, <<>>, <<"<", "python_version", bound>>)

SdistFile == [packagetype |-> "sdist", ext |-> "tar.gz", size |-> 5]
WheelFile == [packagetype |-> "bdist_wheel", ext |-> "whl", size |-> 3]
ZipFile == [packagetype |-> "sdist", ext |-> "zip", size |-> 1]

\* what the registry may declare as requires_dist of a package: declared
\* says whether info.requires_dist is a list (or None), embedded is the
\* requires_dist read from the artifact itself
Declared(specs) == [declared |-> TRUE, specs |-> specs, embedded |-> <<>>]
Undeclared(specs) == [declared |-> FALSE, specs |-> <<>>, embedded |-> specs]

RequiresDistOf(name) ==
    IF name = NameA THEN
        { Declared(<<Plain(NameB), Plain(NameC)>>),
          Declared(<<Pinned(NameC, V10), Pinned(NameC, V20)>>),
          Declared(<<WithExtra(NameB, <<"x">>), AtLeast(NameC, V10)>>) }
    ELSE IF name = NameB THEN
        { Declared(<<Plain(NameC)>>),
          Declared(<<Pinned(NameC, V10), Plain(NameA)>>),
          Declared(<<Pinned(NameA, V20)>>) }
    ELSE { Declared(<<WithPython(NameB, <<"3">>)>>), Undeclared(<<Plain(NameB)>>),
           Declared(<<Pinned(NameA, VWild)>>) }

FilesOf(name) ==
    IF name = NameB THEN { <<WheelFile, SdistFile>>, <<WheelFile>> }
    ELSE { <<SdistFile>> }

\* info.license and info.classifiers of the releases of a package
LicenseOf(name) ==
    IF name = NameA THEN <<"'", "M", "I", "T", "'">>
    ELSE IF name = NameB THEN None
    ELSE <<"z", "z">>

ClassifiersOf(name) ==
    IF name = NameB
    THEN <<<<"T", "o", "p", "i", "c", " ", ":", ":", " ", "U", "t", "i", "l", "i", "t", "i", "e", "s">>,
           <<"L", "i", "c", "e", "n", "s", "e", " ", ":", ":", " ", "O", "S", "I", " ", "A", "p", "p", "r", "o", "v", "e", "d", " ", ":", ":", " ", "M", "I", "T", " ", "L", "i", "c", "e", "n", "s", "e">>>>
    ELSE <<>>

Release(name, version, files, rd) ==
    [version |-> version, files |-> files, declared |-> rd.declared,
     requires_dist |-> rd.specs, metadata |-> rd.embedded,
     license |-> LicenseOf(name), classifiers |-> ClassifiersOf(name)]

Registries ==
    { [n \in Names |->
          LET rd == IF n = NameA THEN ra ELSE IF n = NameB THEN rb ELSE rc
              fl == IF n = NameA THEN fa ELSE IF n = NameB THEN fb ELSE fc
          IN  <<Release(n, V10, fl, rd), Release(n, V20, fl, rd)>>] :
        ra \in RequiresDistOf(NameA), rb \in RequiresDistOf(NameB),
        rc \in RequiresDistOf(NameC),
        fa \in FilesOf(NameA), fb \in FilesOf(NameB), fc \in FilesOf(NameC) }

(***************************************************************************)
(* licenses.LICENSES and translate_license.                                *)
(***************************************************************************)
\* the entries of licenses.LICENSES the registry snapshot can ask for
LicenseTable ==
    (<<"M", "I", "T">> :> <<"M", "I", "T">>)
    @@ (<<"A", "p", "a", "c", "h", "e", " ", "2", ".", "0">> :> <<"A", "p", "a", "c", "h", "e", "-", "2", ".", "0">>)
    @@ (<<"L", "i", "c", "e", "n", "s", "e", " ", ":", ":", " ", "O", "S", "I", " ", "A", "p", "p", "r", "o", "v", "e", "d", " ", ":", ":", " ", "M", "I", "T", " ", "L", "i", "c", "e", "n", "s", "e">>
           :> <<"M", "I", "T">>)

\* str.strip(c) for a single character c
RECURSIVE StripChar(_, _)
StripChar(s, c) ==
    IF s # <<>> /\ s[1] = c THEN StripChar(Tail(s), c)
    ELSE IF s # <<>> /\ s[Len(s)] = c THEN StripChar(SubSeq(s, 1, Len(s) - 1), c)
    ELSE s

\* str.startswith(prefix)
StartsWith(s, prefix) ==
    Len(s) >= Len(prefix) /\ SubSeq(s, 1, Len(prefix)) = prefix

\* what the operator may type at "Please enter a valid license name: "
Answers == {<<"B", "S", "D">>}

\* translate_license with "licenses.LICENSES[license.strip(...)] = mapping" in
\* the place of "licenses.LICENSES[license] = mapping"
StoreUnderStrippedKey(license, classifiers, default_license, table, answer) ==
    LET key == IF license = None THEN None
               ELSE StripChar(StripChar(license, "'"), "\"")
        tagged == {i \in 1..Len(classifiers) : StartsWith(classifiers[i], <<"L", "i", "c", "e", "n", "s", "e">>)}
        first == CHOOSE i \in tagged : \A j \in tagged : i <= j
    IN  IF license \notin {<<>>, None} /\ key \in DOMAIN table
        THEN [license |-> table[key], table |-> table, prompted |-> FALSE]
        ELSE IF tagged # {} /\ classifiers[first] \in DOMAIN table
        THEN [license |-> table[classifiers[first]], table |-> table,
              prompted |-> FALSE]
        ELSE IF Truthy(default_license)
        THEN [license |-> default_license, table |-> table, prompted |-> FALSE]
        ELSE [license |-> answer,
              table |-> [k \in DOMAIN table \cup {key} |->
                            IF k = key THEN answer ELSE table[k]],
              prompted |-> TRUE]

\* translate_license: license is the value returned, table is
\* licenses.LICENSES afterwards, prompted says that input() was called
translate_license(license, classifiers, default_license, table, answer) ==
    LET key == StripChar(StripChar(license, "'"), "\"")
        tagged == {i \in 1..Len(classifiers) : StartsWith(classifiers[i], <<"L", "i", "c", "e", "n", "s", "e">>)}
        first == CHOOSE i \in tagged : \A j \in tagged : i <= j
    IN  IF license \notin {<<>>, None} /\ key \in DOMAIN table
        THEN [license |-> table[key], table |-> table, prompted |-> FALSE]
        ELSE IF tagged # {} /\ classifiers[first] \in DOMAIN table
        THEN [license |-> table[classifiers[first]], table |-> table,
              prompted |-> FALSE]
        ELSE IF Truthy(default_license)
        THEN [license |-> default_license, table |-> table, prompted |-> FALSE]
        ELSE [license |-> answer,
              table |-> [k \in DOMAIN table \cup {license} |->
                            IF k = license THEN answer ELSE table[k]],
              prompted |-> TRUE]

(***************************************************************************)
(* Registry queries of get_package_info.                                   *)
(***************************************************************************)
\* str.lower() of one character
Lower(c) ==
    CASE c = "A" -> "a" [] c = "B" -> "b" [] c = "C" -> "c" [] OTHER -> c

\* re.search('\*', version)
HasWildcard(version) == \E i \in 1..Len(version) : version[i] = "*"

\* the loop "for j in enumerate(v)" over the segments of a wildcard
\* pattern v against the segments tv of a release: "found", "not found",
\* or "raise" (IndexError) when tv has no segment j
RECURSIVE FuzzyMatch(_, _, _)
FuzzyMatch(v, tv, j) ==
    IF j > Len(v) THEN "found"
    ELSE IF v[j] = <<"*">> THEN "found"
    ELSE IF j > Len(tv) THEN "raise"
    ELSE IF v[j] # tv[j] THEN "not found"
    ELSE FuzzyMatch(v, tv, j + 1)

\* pv, the versions of releases[1..k] that match the pattern; <<None>> once
\* the matching raised
RECURSIVE FuzzyVersions(_, _, _)
FuzzyVersions(releases, version, k) ==
    IF k = 0 THEN <<>>
    ELSE LET pv == FuzzyVersions(releases, version, k - 1)
             m == FuzzyMatch(StrSplit(version, "."),
                             StrSplit(releases[k].version, "."), 1)
         IN  IF pv = <<None>> \/ m = "raise" THEN <<None>>
             ELSE IF m = "found" THEN Append(pv, releases[k].version)
             ELSE pv

\* get_file_extension(uri) returns (does not raise)
ExtensionSupported(ext) == ext \in {"tar", "tar.gz", "tar.bz2", "tar.xz", "zip"}

pkg_size(pkg) ==
    IF pkg.ext \in {"tar", "tar.gz", "tar.bz2", "tar.xz"} THEN pkg.size
    ELSE IF pkg.ext = "zip" THEN pkg.size * 10
    ELSE pkg.size * 10000

\* sorted(pkg_versions, key=pkg_size)[0]: the first file of the smallest key
Smallest(files) ==
    files[CHOOSE i \in 1..Len(files) :
            \A j \in 1..Len(files) :
                \/ pkg_size(files[i]) < pkg_size(files[j])
                \/ (pkg_size(files[i]) = pkg_size(files[j]) /\ i <= j)]

\* fetch_requirements_from_remote_package: the embedded requires_dist, or
\* "raise" for a file pkginfo cannot read
fetch_requirements_from_remote_package(release) ==
    IF release.files = <<>> THEN [exc |-> TRUE, specs |-> <<>>]
    ELSE IF Smallest(release.files).ext \in {"tar.gz", "zip", "tar.xz", "tar.bz2", "tar", "whl", "egg"}
    THEN [exc |-> FALSE, specs |-> release.metadata]
    ELSE [exc |-> TRUE, specs |-> <<>>]

Failure(urls, table) ==
    [ok |-> FALSE, version |-> None, license |-> None, dependencies |-> <<>>,
     urls |-> urls, table |-> table, prompted |-> FALSE, artifact |-> None]

\* The body of the try statement of get_package_info up to the Package it
\* builds: ok says that no exception was raised, urls lists the registry
\* documents fetched (<<name, version>>, version None for the unversioned
\* one), table is licenses.LICENSES afterwards, artifact is the file whose
\* url is passed to get_package_file_info.
TryBody(reg, package_name, requested, follow, default_license, table, answer) ==
    IF package_name \notin DOMAIN reg
    THEN Failure(<<(<<package_name, None>>)>>, table)
    ELSE
    LET releases == reg[package_name]
        fuzzy == Truthy(requested) /\ HasWildcard(requested)
        pv == IF fuzzy THEN FuzzyVersions(releases, requested, Len(releases)) ELSE <<>>
        urls1 == IF fuzzy THEN <<(<<package_name, None>>)>> ELSE <<>>
    IN  IF fuzzy /\ (pv = <<None>> \/ pv = <<>>) THEN Failure(urls1, table)
        ELSE
        LET version1 == IF fuzzy THEN pv[Len(pv)] ELSE requested
            urls == Append(urls1, <<package_name, version1>>)
            found == IF Truthy(version1)
                     THEN {k \in 1..Len(releases) : releases[k].version = version1}
                     ELSE IF releases = <<>> THEN {} ELSE {Len(releases)}
        IN  IF found = {} THEN Failure(urls, table)
            ELSE
            LET info == releases[CHOOSE k \in found : TRUE]
                version == IF Truthy(version1) THEN version1 ELSE info.version
                license == translate_license(info.license, info.classifiers,
                                             default_license, table, answer)
                failed == [Failure(urls, license.table)
                              EXCEPT !.prompted = license.prompted]
                sdists == {k \in 1..Len(info.files) : info.files[k].packagetype = "sdist"}
            IN  IF sdists = {} THEN failed
                ELSE
                LET version_info == info.files[CHOOSE k \in sdists : \A m \in sdists : k <= m]
                    fetched == IF info.declared
                               THEN [exc |-> FALSE, specs |-> info.requires_dist]
                               ELSE fetch_requirements_from_remote_package(info)
                IN  IF ~ExtensionSupported(version_info.ext) \/ fetched.exc THEN failed
                    ELSE [ok |-> TRUE, version |-> version,
                          license |-> license.license,
                          dependencies |-> get_package_dependencies(fetched.specs, follow),
                          urls |-> urls, table |-> license.table,
                          prompted |-> license.prompted,
                          artifact |-> version_info]

(***************************************************************************)
(* get_package_file_info and the download of                               *)
(* fetch_requirements_from_remote_package, with the files they create.  A  *)
(* path is the sequence of its components; fs is the set of the paths that *)
(* exist under the directory of temporary files.  An archive is the file   *)
(* behind a url: ext is the extension of the url; download is "ok",        *)
(* "refused" (urlretrieve raises before it writes) or "cut" (it raises     *)
(* with a part of the file written); unpack says whether the file can be   *)
(* unpacked and read; dir says whether it holds a top-level directory;     *)
(* files are the names of the files in that directory.                     *)
(***************************************************************************)
TemporaryNames == {"tmp0", "tmp1", "tmp2", "tmp3"}

\* tempfile.TemporaryDirectory(): a directory that does not exist yet
NewTemporaryDirectory(fs) ==
    << CHOOSE name \in TemporaryNames :
          /\ <<name>> \notin fs
          /\ \A other \in TemporaryNames :
                 <<other>> \notin fs => ~StrLess(<<other>>, <<name>>) \/ other = name >>

Under(dir, path) == Len(dir) <= Len(path) /\ SubSeq(path, 1, Len(dir)) = dir

\* shutil.rmtree(dir), os.remove(file)
Remove(fs, path) == {q \in fs : ~Under(path, q)}

\* a directory made with tempfile.mkdtemp(), which nothing removes
KeepTemporaryDirectory(fs, tmp) == fs

\* the end of "with tempfile.TemporaryDirectory() as tmp", by return or by
\* an exception
TemporaryDirectoryExit(fs, tmp) == Remove(fs, tmp)

\* the value of get_package_file_info or of the download: exc says that it
\* raised, fs is what exists afterwards, output and tmpdir are the paths of
\* the file downloaded and of the directory it was unpacked to (<<>> when
\* the call did not come to name them)
Outcome(exc, fs, output, tmpdir) ==
    [exc |-> exc, fs |-> fs, output |-> output, tmpdir |-> tmpdir]

get_package_file_info(archive, fs) ==
    IF ~ExtensionSupported(archive.ext) THEN Outcome(TRUE, fs, <<>>, <<>>)
    ELSE
    LET tmp == NewTemporaryDirectory(fs)
        output == Append(tmp, "output")
        tmpdir == Append(tmp, "output.d")
        src_dir == Append(tmpdir, "src_dir")
        fs1 == fs \cup {tmp}
        fs2 == fs1 \cup {output}
        fs3 == fs2 \cup {tmpdir}
        fs4 == fs3 \cup (IF archive.dir
                         THEN {src_dir} \cup {Append(src_dir, f) : f \in archive.files}
                         ELSE {})
        license_file == IF "LICENSE" \in archive.files THEN "LICENSE"
                        ELSE IF "setup.py" \in archive.files THEN "setup.py"
                        ELSE "None"
        raised(at) == Outcome(TRUE, TemporaryDirectoryExit(at, tmp), output, tmpdir)
    IN  IF archive.download = "refused" THEN raised(fs1)
        ELSE IF archive.download = "cut" THEN raised(fs2)
        ELSE IF ~archive.unpack THEN raised(fs3)
        ELSE IF ~archive.dir THEN raised(fs4)
        ELSE IF license_file = "None" THEN raised(fs4)
        ELSE Outcome(FALSE,
                     TemporaryDirectoryExit(Remove(Remove(fs4, output), tmpdir), tmp),
                     output, tmpdir)

\* fetch_requirements_from_remote_package, lines 325-329: the file is
\* downloaded to a temporary directory and read by pkginfo
DownloadAndRead(archive, fs) ==
    LET directory == NewTemporaryDirectory(fs)
        path == Append(directory, "filename")
        fs1 == fs \cup {directory}
        fs2 == fs1 \cup {path}
        raised(at) == Outcome(TRUE, TemporaryDirectoryExit(at, directory), path, <<>>)
    IN  IF archive.download = "refused" THEN raised(fs1)
        ELSE IF archive.download = "cut" THEN raised(fs2)
        ELSE IF ~archive.unpack THEN raised(fs2)
        ELSE Outcome(FALSE, TemporaryDirectoryExit(fs2, directory), path, <<>>)

(***************************************************************************)
(* check_package_already_processed: the loop over all_packages from        *)
(* position i on.  out is "True" or "False" for the value returned and     *)
(* "raise" when compare_versions raised; warnings lists the version found  *)
(* of every [WARNING] line printed.                                        *)
(***************************************************************************)
RECURSIVE CheckLoop(_, _, _, _, _)
CheckLoop(package_name, version, all_packages, i, warned) ==
    IF i > Len(all_packages) THEN [out |-> "False", warnings |-> warned]
    ELSE IF package_name = all_packages[i].name THEN
        LET result == compare_versions(version, all_packages[i].version)
        IN  IF result.exc THEN [out |-> "raise", warnings |-> warned]
            ELSE IF result.val # 1 THEN [out |-> "True", warnings |-> warned]
            ELSE CheckLoop(package_name, version, all_packages, i + 1,
                           Append(warned, all_packages[i].version))
    ELSE CheckLoop(package_name, version, all_packages, i + 1, warned)

check_package_already_processed(package_name, version, processed_packages, pkgs) ==
    CheckLoop(package_name, version, processed_packages \o pkgs, 1, <<>>)

(***************************************************************************)
(* Lines of the requirements file and of the existing-packages file.       *)
(***************************************************************************)
\* str.split("==")
RECURSIVE SplitEq(_)
SplitEq(s) ==
    LET at == {i \in 1..(Len(s) - 1) : s[i] = "=" /\ s[i + 1] = "="}
    IN  IF at = {} THEN <<s>>
        ELSE LET k == CHOOSE i \in at : \A j \in at : i <= j
             IN  <<SubSeq(s, 1, k - 1)>> \o SplitEq(SubSeq(s, k + 2, Len(s)))

\* str.strip() (blanks only)
RECURSIVE Strip(_)
Strip(s) ==
    IF s # <<>> /\ s[1] = " " THEN Strip(Tail(s))
    ELSE IF s # <<>> /\ s[Len(s)] = " " THEN Strip(SubSeq(s, 1, Len(s) - 1))
    ELSE s

LineA == <<"a">>
LineB == <<"b">>
LineC == <<"c">>
LineA10 == <<"a", "=", "=", "1", ".", "0">>
LineB10 == <<"b", "=", "=", "1", ".", "0">>
LineEditable == <<"-", "e", " ", "a">>

\* the lines a requirements file is made of
RequirementLines == {LineA, LineB, LineA10, LineEditable}
\* the lines an existing-packages file is made of
ExistingLines == {LineC, LineB10}

RECURSIVE SeqsUpTo(_, _)
SeqsUpTo(S, n) ==
    IF n = 0 THEN {<<>>}
    ELSE LET shorter == SeqsUpTo(S, n - 1)
         IN  shorter \cup {Append(q, x) : q \in {r \in shorter : Len(r) = n - 1}, x \in S}

\* the Package parse_existing_packages makes of one line
ExistingPackage(line0) ==
    LET line == Strip(line0)
        parts == SplitEq(line)
    IN  IF Len(parts) > 1 THEN Package(parts[1], parts[2], <<>>, <<>>)
        ELSE Package(line, None, <<>>, <<>>)

parse_existing_packages(lines) == [i \in 1..Len(lines) |-> ExistingPackage(lines[i])]

(***************************************************************************)
(* generate_recipes and generate_recipe.                                   *)
(***************************************************************************)
\* package.lower().replace("_", "-").replace(".", "-")
package_to_bb_name(package) ==
    [i \in DOMAIN package |->
        IF Lower(package[i]) \in {"_", "."} THEN "-" ELSE Lower(package[i])]

\* args.python
PythonArg == <<"p", "y", "t", "h", "o", "n", "3">>

\* generate_recipe: the file written, with the package it renders and the
\* names of its dependencies line
generate_recipe(package, python, is_extra) ==
    [basename |-> python \o <<"-">> \o package_to_bb_name(package.name) \o <<"_">>
                  \o package.version \o <<".", "b", "b">>,
     is_extra |-> is_extra,
     package |-> package,
     dependencies |-> [i \in DOMAIN package.dependencies |->
                          python \o <<"-">>
                          \o package_to_bb_name(package.dependencies[i].name)]]

\* [dep for dep in package.dependencies if dep.extra]
RECURSIVE ExtraDependencies(_)
ExtraDependencies(dependencies) ==
    IF dependencies = <<>> THEN <<>>
    ELSE (IF Truthy(Head(dependencies).extra) THEN <<Head(dependencies)>> ELSE <<>>)
         \o ExtraDependencies(Tail(dependencies))

\* the comprehension of generate_recipes without "if e.extra == extra.extra"
AnyExtra(extras, extra) ==
    [i \in DOMAIN extras |-> Dependency(extras[i].name, extras[i].version, None)]

\* [Dependency(e.name, e.version, None) for e in extras if e.extra == extra]
RECURSIVE SameExtra(_, _)
SameExtra(extras, extra) ==
    IF extras = <<>> THEN <<>>
    ELSE (IF Head(extras).extra = extra
          THEN <<Dependency(Head(extras).name, Head(extras).version, None)>>
          ELSE <<>>)
         \o SameExtra(Tail(extras), extra)

\* the loop "for extra in extras" of generate_recipes from position i on,
\* processed being the extras that have their recipe
RECURSIVE ExtraRecipes(_, _, _, _, _)
ExtraRecipes(package, python, extras, i, processed) ==
    IF i > Len(extras) THEN <<>>
    ELSE IF extras[i].extra \in processed
    THEN ExtraRecipes(package, python, extras, i + 1, processed)
    ELSE LET extra_package ==
                 [package EXCEPT
                     !.name = package.name \o <<"-">> \o extras[i].extra,
                     !.dependencies =
                         <<Dependency(package.name, package.version, None)>>
                         \o SameExtra(extras, extras[i].extra)]
         IN  <<generate_recipe(extra_package, python, TRUE)>>
             \o ExtraRecipes(package, python, extras, i + 1,
                             processed \cup {extras[i].extra})

RECURSIVE generate_recipes(_, _, _)
generate_recipes(pkgs, python, follow) ==
    IF pkgs = <<>> THEN <<>>
    ELSE <<generate_recipe(Head(pkgs), python, FALSE)>>
         \o (IF follow
             THEN ExtraRecipes(Head(pkgs), python,
                               ExtraDependencies(Head(pkgs).dependencies), 1, {})
             ELSE <<>>)
         \o generate_recipes(Tail(pkgs), python, follow)

(***************************************************************************)
(* State.                                                                  *)
(***************************************************************************)
VARIABLES
    registry,            \* the registry snapshot
    PROCESSED_PACKAGES,  \* the module's global list
    LICENSES,            \* licenses.LICENSES, the license table
    follow_extras,       \* args.extras of the current run
    default_license,     \* args.default_license of the current run
    mode,                \* "requirements" (-r) or "package" (-p)
    pc,                  \* "idle", "gather", "finish" or "done": where main stands
    result,              \* the list `packages` of main / parse_requirements
    packages,            \* packages[0] of the root call in progress
    stack,               \* the frames of get_package_info, the root first
    nRoots,              \* lines of the requirements file read
    history,             \* observations: requests, urls, lists returned
    recipes,             \* the recipes generate_recipes wrote, in order
    calls                \* observations: calls of compare_versions and
                         \* translate_license made on their own

vars == <<registry, PROCESSED_PACKAGES, LICENSES, follow_extras, default_license,
          mode, pc, result, packages, stack, nRoots, history, recipes, calls>>

\* history.requests[r] observes the r-th call of get_package_info:
\*   package, version, indent: its arguments; parent: the request that made
\*   it (0 for a root call); dep: which dependency of the parent it is;
\*   root: the root call it descends from; follow: follow_extras of the
\*   call; known: the versions at which its package name stood in
\*   PROCESSED_PACKAGES when it was made; before: PROCESSED_PACKAGES when a
\*   root call was made; skipped: it returned at the skip check;
\*   raised: its skip check raised; entry: the position in
\*   PROCESSED_PACKAGES of the Package it appended (0 for none); place: the
\*   position of that Package in packages[0]; reported: its except
\*   clause printed [ERROR] Failed to gather; warned: [WARNING] lines it printed
\* history.urls: the registry documents fetched, in order, with the request
\* history.lists: the lists the root calls returned, in order
\* history.seeded: what main read from the existing-packages file
\* history.lines: the lines of the requirements file read so far
\* the versions at which a package name stands in a list of Packages
RECURSIVE VersionsOf(_, _)
VersionsOf(name, list) ==
    IF list = <<>> THEN <<>>
    ELSE (IF Head(list).name = name THEN <<Head(list).version>> ELSE <<>>)
         \o VersionsOf(name, Tail(list))

NewRequest(package, version, indent, parent, dep) ==
    [package |-> package, version |-> version, indent |-> indent,
     parent |-> parent, dep |-> dep,
     root |-> IF parent = 0 THEN Len(history.requests) + 1
              ELSE history.requests[parent].root,
     follow |-> follow_extras,
     known |-> VersionsOf(PackageName(package), PROCESSED_PACKAGES),
     before |-> IF parent = 0 THEN PROCESSED_PACKAGES ELSE <<>>,
     skipped |-> FALSE, raised |-> FALSE, entry |-> 0, place |-> 0,
     reported |-> FALSE, warned |-> <<>>, prompted |-> FALSE]

Frame(req, package, version, indent) ==
    [req |-> req, package |-> package, version |-> version, indent |-> indent,
     pc |-> "try", dependencies |-> <<>>, next |-> 1]

Init ==
    /\ registry \in Registries
    /\ PROCESSED_PACKAGES = <<>>
    /\ LICENSES = LicenseTable
    /\ follow_extras = FALSE
    /\ default_license = None
    /\ mode = "requirements"
    /\ pc = "idle"
    /\ result = <<>>
    /\ packages = <<>>
    /\ stack = <<>>
    /\ nRoots = 0
    /\ history = [requests |-> <<>>, urls |-> <<>>, lists |-> <<>>,
                  seeded |-> <<>>, lines |-> <<>>]
    /\ recipes = <<>>
    /\ calls = <<>>

Top == stack[Len(stack)]

\* what --package / --version may be
PackageArgs == { [package |-> NameA, version |-> None],
                 [package |-> NameC, version |-> V10] }

\* list.insert(0, package) in the place of list.append(package)
InsertPackage(list, package) == <<package>> \o list

\* list[-1:] = [package] in the place of list.append(package)
OverwriteLast(list, package) ==
    IF list = <<>> THEN <<package>> ELSE [list EXCEPT ![Len(list)] = package]

\* packages[0].append(package); PROCESSED_PACKAGES.append(package)
AppendPackage(list, package) == Append(list, package)

\* the observations once the top frame has returned: a root call has
\* returned packages[0]
Listed(h) ==
    IF Len(stack) = 1
    THEN [h EXCEPT !.lists = Append(@, [root |-> Top.req, list |-> packages])]
    ELSE h

\* the stack once the top frame has returned packages[0] to its caller: the
\* caller's loop over its dependencies moves on
Returning ==
    LET rest == SubSeq(stack, 1, Len(stack) - 1)
    IN  IF rest = <<>> THEN <<>>
        ELSE [rest EXCEPT ![Len(rest)].next = @ + 1]

\* the top frame returns packages[0]; a root call returns it to
\* parse_requirements (packages += ...) or to main (packages = ...)
Leave ==
    /\ stack' = Returning
    /\ IF Len(stack) = 1
       THEN /\ result' = IF mode = "requirements" THEN result \o packages ELSE packages
            /\ pc' = IF mode = "package" THEN "finish" ELSE pc
       ELSE UNCHANGED <<result, pc>>

\* get_package_info called with packages=None: lines 403-423, no skip check
RootCall(package, version, requests) ==
    /\ packages' = <<>>
    /\ stack' = <<Frame(Len(requests) + 1, package, version, 0)>>
    /\ nRoots' = nRoots + 1

(***************************************************************************)
(* main, lines 762-779: read the existing-packages file, if one is given,  *)
(* and start gathering.                                                    *)
(***************************************************************************)
Main(existing, extras, license, m) ==
    /\ pc = "idle"
    /\ PROCESSED_PACKAGES' = PROCESSED_PACKAGES \o parse_existing_packages(existing)
    /\ follow_extras' = extras
    /\ default_license' = license
    /\ mode' = m
    /\ pc' = "gather"
    /\ result' = <<>>
    /\ history' = [history EXCEPT !.seeded = parse_existing_packages(existing)]
    /\ UNCHANGED <<registry, recipes, calls, LICENSES, packages, stack, nRoots>>

(***************************************************************************)
(* main, lines 773-779: --package.                                         *)
(***************************************************************************)
MainPackage(arg) ==
    /\ pc = "gather"
    /\ mode = "package"
    /\ stack = <<>>
    /\ RootCall(arg.package, arg.version, history.requests)
    /\ history' = [history EXCEPT
            !.requests = Append(@, NewRequest(arg.package, arg.version, 0, 0, 0)),
            !.lines = <<arg.package, arg.version>>]
    /\ UNCHANGED <<registry, recipes, calls, PROCESSED_PACKAGES, LICENSES, follow_extras,
                   default_license, mode, pc, result>>

(***************************************************************************)
(* parse_requirements, lines 594-616: one line of the requirements file.   *)
(***************************************************************************)
ParseRequirementsLine(line) ==
    /\ pc = "gather"
    /\ mode = "requirements"
    /\ stack = <<>>
    /\ nRoots < MaxRoots
    /\ LET package == Strip(line)
           parts == [i \in 1..Len(SplitEq(package)) |-> Strip(SplitEq(package)[i])]
           called == /\ package # <<>>
                     /\ ~(StartsWith(package, <<"-", "e">>) \/ StartsWith(package, <<".">>))
                     /\ Len(parts) \in {1, 2}
           version == IF Len(parts) = 2 THEN parts[2] ELSE None
       IN  IF called
           THEN /\ RootCall(parts[1], version, history.requests)
                /\ history' = [history EXCEPT
                        !.requests = Append(@, NewRequest(parts[1], version, 0, 0, 0)),
                        !.lines = Append(@, line)]
           ELSE /\ nRoots' = nRoots + 1
                /\ history' = [history EXCEPT !.lines = Append(@, line)]
                /\ UNCHANGED <<packages, stack>>
    /\ UNCHANGED <<registry, recipes, calls, PROCESSED_PACKAGES, LICENSES, follow_extras,
                   default_license, mode, pc, result>>

(***************************************************************************)
(* get_package_info, lines 425-513 and 526-531: the try body of the top    *)
(* frame, up to the two appends, or its except clause.                     *)
(***************************************************************************)
Resolve(answer) ==
    /\ stack # <<>>
    /\ Top.pc = "try"
    /\ LET name == PackageName(Top.package)
           t == TryBody(registry, name, Top.version, follow_extras,
                        default_license, LICENSES, answer)
           package == Package(name, t.version, t.license, t.dependencies)
           urls == history.urls \o [i \in 1..Len(t.urls) |->
                                        [req |-> Top.req, name |-> t.urls[i][1],
                                         version |-> t.urls[i][2]]]
       IN  /\ LICENSES' = t.table
           /\ IF t.ok
              THEN /\ packages' = AppendPackage(packages, package)
                   /\ PROCESSED_PACKAGES' = AppendPackage(PROCESSED_PACKAGES, package)
                   /\ stack' = [stack EXCEPT ![Len(stack)].pc = "walk",
                                             ![Len(stack)].dependencies = t.dependencies]
                   /\ history' = [history EXCEPT
                           !.urls = urls,
                           !.requests[Top.req].prompted = t.prompted,
                           !.requests[Top.req].entry = Len(PROCESSED_PACKAGES) + 1,
                           !.requests[Top.req].place = Len(packages) + 1]
                   /\ UNCHANGED <<result, pc>>
              ELSE /\ Leave
                   /\ history' = Listed([history EXCEPT
                           !.urls = urls,
                           !.requests[Top.req].prompted = t.prompted,
                           !.requests[Top.req].reported = TRUE])
                   /\ UNCHANGED <<packages, PROCESSED_PACKAGES>>
    /\ UNCHANGED <<registry, recipes, calls, follow_extras, default_license, mode, nRoots>>

(***************************************************************************)
(* get_package_info, lines 515-524 with lines 403-409 of the call made:    *)
(* the top frame calls get_package_info for its next dependency.  The      *)
(* call returns at once when the skip check says so; an exception of the   *)
(* skip check is raised in the caller's try statement, whose except        *)
(* clause (lines 526-531) ends the caller.                                 *)
(***************************************************************************)
WalkNext ==
    /\ stack # <<>>
    /\ Top.pc = "walk"
    /\ Top.next <= Len(Top.dependencies)
    /\ LET dependency == Top.dependencies[Top.next]
           check == check_package_already_processed(
                        PackageName(dependency.name), dependency.version,
                        PROCESSED_PACKAGES, packages)
           request == [NewRequest(dependency.name, dependency.version,
                                  Top.indent + 2, Top.req, Top.next)
                          EXCEPT !.warned = check.warnings,
                                 !.skipped = (check.out = "True"),
                                 !.raised = (check.out = "raise")]
           r == Len(history.requests) + 1
       IN  CASE check.out = "True" ->
                  /\ stack' = [stack EXCEPT ![Len(stack)].next = @ + 1]
                  /\ history' = [history EXCEPT !.requests = Append(@, request)]
                  /\ UNCHANGED <<result, pc>>
             [] check.out = "raise" ->
                  /\ Leave
                  /\ history' = Listed([history EXCEPT
                          !.requests = [Append(@, request)
                                           EXCEPT ![Top.req].reported = TRUE]])
             [] OTHER ->
                  /\ stack' = Append(stack, Frame(r, dependency.name,
                                                  dependency.version, Top.indent + 2))
                  /\ history' = [history EXCEPT !.requests = Append(@, request)]
                  /\ UNCHANGED <<result, pc>>
    /\ UNCHANGED <<registry, recipes, calls, PROCESSED_PACKAGES, LICENSES, follow_extras,
                   default_license, mode, packages, nRoots>>

(***************************************************************************)
(* get_package_info, line 531: the loop over the dependencies is over.     *)
(***************************************************************************)
Return ==
    /\ stack # <<>>
    /\ Top.pc = "walk"
    /\ Top.next > Len(Top.dependencies)
    /\ Leave
    /\ history' = Listed(history)
    /\ UNCHANGED <<registry, recipes, calls, PROCESSED_PACKAGES, LICENSES, follow_extras,
                   default_license, mode, packages, nRoots>>

(***************************************************************************)
(* main, lines 783-784: gathering is over, generate_recipes writes the     *)
(* recipes of the result.                                                  *)
(***************************************************************************)
EndRun ==
    /\ stack = <<>>
    /\ \/ pc = "finish"
       \/ pc = "gather" /\ mode = "requirements"
    /\ pc' = "done"
    /\ recipes' = generate_recipes(result, PythonArg, follow_extras)
    /\ UNCHANGED <<registry, calls, PROCESSED_PACKAGES, LICENSES, follow_extras,
                   default_license, mode, result, packages, stack, nRoots, history>>

\* what --extras and --default-license may be
Options == { [extras |-> FALSE, default_license |-> None],
             [extras |-> TRUE, default_license |-> None],
             [extras |-> FALSE, default_license |-> <<"M", "I", "T">>] }

MainCall ==
    \E existing \in SeqsUpTo(ExistingLines, MaxSeed),
       o \in Options, m \in {"requirements", "package"} :
        Main(existing, o.extras, o.default_license, m)

ResolveCall == \E answer \in Answers : Resolve(answer)

Next ==
    \/ MainCall
    \/ \E arg \in PackageArgs : MainPackage(arg)
    \/ \E line \in RequirementLines : ParseRequirementsLine(line)
    \/ ResolveCall
    \/ WalkNext
    \/ Return
    \/ EndRun

Spec == Init /\ [][Next]_vars

(***************************************************************************)
(* The run on a registry in which a package requires another under a name  *)
(* spelled with a capital letter.  The registry matches names without      *)
(* regard to case: asked for "A" it answers with the documents of a.       *)
(***************************************************************************)
NameUpperA == <<"A">>

SpelledRegistries ==
    { [n \in Names \cup {NameUpperA} |->
          LET project == IF n = NameUpperA THEN NameA ELSE n
              rd == IF project = NameA THEN Declared(<<Plain(NameB)>>)
                    ELSE IF project = NameB THEN rb
                    ELSE Declared(<<>>)
          IN  <<Release(project, V10, <<SdistFile>>, rd),
                Release(project, V20, <<SdistFile>>, rd)>>] :
        rb \in { Declared(<<Plain(NameUpperA)>>), Declared(<<Plain(NameA)>>) } }

SpelledInit ==
    /\ registry \in SpelledRegistries
    /\ PROCESSED_PACKAGES = <<>>
    /\ LICENSES = LicenseTable
    /\ follow_extras = FALSE
    /\ default_license = None
    /\ mode = "requirements"
    /\ pc = "idle"
    /\ result = <<>>
    /\ packages = <<>>
    /\ stack = <<>>
    /\ nRoots = 0
    /\ history = [requests |-> <<>>, urls |-> <<>>, lists |-> <<>>,
                  seeded |-> <<>>, lines |-> <<>>]
    /\ recipes = <<>>
    /\ calls = <<>>

SpelledSpec == SpelledInit /\ [][Next]_vars

(***************************************************************************)
(* The state of a process in which main has not run: the functions of the  *)
(* module are called on their own.                                         *)
(***************************************************************************)
AtRest ==
    /\ registry = CHOOSE r \in Registries : TRUE
    /\ PROCESSED_PACKAGES = <<>>
    /\ follow_extras = FALSE
    /\ mode = "requirements"
    /\ pc = "idle"
    /\ result = <<>>
    /\ packages = <<>>
    /\ stack = <<>>
    /\ nRoots = 0
    /\ history = [requests |-> <<>>, urls |-> <<>>, lists |-> <<>>,
                  seeded |-> <<>>, lines |-> <<>>]
    /\ recipes = <<>>

(***************************************************************************)
(* The registry queries of get_package_info on their own: one call of the  *)
(* try body for a package whose releases and release files the registry    *)
(* lists in any order.                                                     *)
(***************************************************************************)
\* the sequences of 1 to n different elements of S
RECURSIVE Arrangements(_, _)
Arrangements(S, n) ==
    IF n = 0 THEN {}
    ELSE {<<x>> : x \in S}
         \cup {Append(a, x) : a \in Arrangements(S, n - 1), x \in S}

NoRepeats(a) == \A i, j \in DOMAIN a : a[i] = a[j] => i = j

MaxListed == 3

\* the keys of info["releases"]
QueryVersions == {<<"1", ".", "0">>, <<"1", ".", "1">>, <<"2", ".", "1">>}

\* the "releases" object: its keys in the order of the document
ReleaseLists == {a \in Arrangements(QueryVersions, MaxListed) : NoRepeats(a)}

\* info["releases"][version]
FileLists == {a \in Arrangements({SdistFile, ZipFile, WheelFile}, MaxListed - 1) : NoRepeats(a)}

QueryRegistries ==
    { [n \in {NameA} |->
          [k \in 1..Len(versions) |->
              Release(n, versions[k], files, Declared(<<>>))]] :
        versions \in ReleaseLists, files \in FileLists }

\* the version argument of get_package_info
QueryRequests == {None, <<"1", ".", "0">>, <<"1", ".", "*">>, <<"*", ".", "1">>}

QueryInit ==
    /\ registry \in QueryRegistries
    /\ PROCESSED_PACKAGES = <<>>
    /\ LICENSES = LicenseTable
    /\ follow_extras = FALSE
    /\ default_license = None
    /\ mode = "package"
    /\ pc = "idle"
    /\ result = <<>>
    /\ packages = <<>>
    /\ stack = <<>>
    /\ nRoots = 0
    /\ history = [requests |-> <<>>, urls |-> <<>>, lists |-> <<>>,
                  seeded |-> <<>>, lines |-> <<>>]
    /\ recipes = <<>>
    /\ calls = <<>>

Query(version, answer) ==
    /\ calls = <<>>
    /\ LET t == TryBody(registry, NameA, version, follow_extras,
                        default_license, LICENSES, answer)
       IN  /\ LICENSES' = t.table
           /\ calls' = << [package |-> NameA, version |-> version, result |-> t] >>
    /\ UNCHANGED <<registry, PROCESSED_PACKAGES, follow_extras, default_license,
                   mode, pc, result, packages, stack, nRoots, history, recipes>>

QueryNext == \E version \in QueryRequests, answer \in Answers : Query(version, answer)

QuerySpec == QueryInit /\ [][QueryNext]_vars

(***************************************************************************)
(* parse_requires_dist on its own: one call on a specifier of up to        *)
(* MaxClauses version clauses.                                             *)
(***************************************************************************)
MaxClauses == 2

\* the (relation, version) pairs of a parsed specifier
Clauses ==
    { <<"==", V10>>, <<">=", V10>>, <<"<=", V20>>, <<"~=", V10>>, <<"!=", V20>> }

Specifiers ==
    { Requirement(name, versions, marker) :
        name \in Names,
        versions \in {<<>>} \cup {a \in Arrangements(Clauses, MaxClauses) : NoRepeats(a)},
        marker \in {<<>>, <<"==", "extra", <<"x">>>>} }

ParseInit ==
    /\ AtRest
    /\ LICENSES = LicenseTable
    /\ default_license = None
    /\ calls = <<>>

ParseRequiresDist(requires_dist) ==
    /\ calls = <<>>
    /\ calls' = << [requires_dist |-> requires_dist,
                    result |-> parse_requires_dist(requires_dist)] >>
    /\ UNCHANGED <<registry, PROCESSED_PACKAGES, LICENSES, follow_extras,
                   default_license, mode, pc, result, packages, stack, nRoots,
                   history, recipes>>

ParseNext == \E requires_dist \in Specifiers : ParseRequiresDist(requires_dist)

ParseSpec == ParseInit /\ [][ParseNext]_vars

\* the calls of a function made on its own in one process
MaxCalls == 2

(***************************************************************************)
(* get_package_file_info and the download of requires_dist on their own:   *)
(* up to MaxCalls calls in one process, each on any of Archives.  A call   *)
(* finds the files the call before it left.                                *)
(***************************************************************************)
Archives ==
    { [ext |-> e, download |-> d, unpack |-> u, dir |-> t, files |-> f] :
        e \in {"tar.gz", "whl"}, d \in {"ok", "refused", "cut"},
        u \in BOOLEAN, t \in BOOLEAN, f \in {{}, {"LICENSE"}, {"setup.py"}} }

\* the archives without what a failed step leaves undecided
ArchiveInputs ==
    { a \in Archives :
        /\ a.download # "ok" => ~a.unpack
        /\ ~a.unpack => ~a.dir
        /\ ~a.dir => a.files = {} }

\* the paths that exist when the next call starts
Scratch == IF calls = <<>> THEN {} ELSE calls[Len(calls)].after

IntrospectInit ==
    /\ AtRest
    /\ LICENSES = LicenseTable
    /\ default_license = None
    /\ calls = <<>>

Introspected(function, archive, outcome) ==
    /\ calls' = Append(calls,
           [function |-> function, archive |-> archive, before |-> Scratch,
            after |-> outcome.fs, exc |-> outcome.exc,
            output |-> outcome.output, tmpdir |-> outcome.tmpdir])
    /\ UNCHANGED <<registry, PROCESSED_PACKAGES, LICENSES, follow_extras,
                   default_license, mode, pc, result, packages, stack, nRoots,
                   history, recipes>>

GetPackageFileInfo(archive) ==
    /\ Len(calls) < MaxCalls
    /\ Introspected("get_package_file_info", archive,
                    get_package_file_info(archive, Scratch))

FetchRequirements(archive) ==
    /\ Len(calls) < MaxCalls
    /\ Introspected("fetch_requirements_from_remote_package", archive,
                    DownloadAndRead(archive, Scratch))

IntrospectNext ==
    \/ \E archive \in ArchiveInputs : GetPackageFileInfo(archive)
    \/ \E archive \in ArchiveInputs : FetchRequirements(archive)

IntrospectSpec == IntrospectInit /\ [][IntrospectNext]_vars

(***************************************************************************)
(* compare_versions on its own: one call on any two of Versions.           *)
(***************************************************************************)
\* the operands: None, the empty string and version strings
Versions ==
    { None,
      <<>>,
      <<"1", ".", "0">>,
      <<"2", ".", "0">>,
      <<"1", ".", "2">>,
      <<"1", ".", "2", ".", "0">>,
      <<"1", ".", "2", ".", "9">>,
      <<"1", ".", "2", ".", "3">>,
      <<"1", ".", "2", ".", "1", "0">>,
      <<"1", ".", "0", "a">>,
      <<"1", ".", "0", "b">>,
      <<"1", ".", "*">>,
      <<"1", "-", "0">> }

CompareInit ==
    /\ AtRest
    /\ LICENSES = LicenseTable
    /\ default_license = None
    /\ calls = <<>>

CompareVersions(version1, version2) ==
    /\ calls = <<>>
    /\ calls' = << [version1 |-> version1, version2 |-> version2,
                    result |-> compare_versions(version1, version2)] >>
    /\ UNCHANGED <<registry, PROCESSED_PACKAGES, LICENSES, follow_extras,
                   default_license, mode, pc, result, packages, stack, nRoots,
                   history, recipes>>

CompareNext == \E version1, version2 \in Versions : CompareVersions(version1, version2)

CompareSpec == CompareInit /\ [][CompareNext]_vars

(***************************************************************************)
(* translate_license on its own: up to MaxCalls calls in one process, on   *)
(* any declared license and classifier list of the sets below, with or     *)
(* without a default license.                                              *)
(***************************************************************************)
\* info["info"]["license"]: absent, empty, a key of licenses.LICENSES, the
\* key in quotes, the key after a blank, a string that is no key, and that
\* string in quotes
DeclaredLicenses ==
    { None, <<>>,
      <<"M", "I", "T">>,
      <<"'", "M", "I", "T", "'">>,
      <<" ", "M", "I", "T">>,
      <<"z", "z">>,
      <<"'", "z", "z", "'">> }

MITClassifier == <<"L", "i", "c", "e", "n", "s", "e", " ", ":", ":", " ", "O", "S", "I", " ", "A", "p", "p", "r", "o", "v", "e", "d", " ", ":", ":", " ", "M", "I", "T", " ", "L", "i", "c", "e", "n", "s", "e">>

\* a license classifier that licenses.LICENSES has no entry for
OtherClassifier == <<"L", "i", "c", "e", "n", "s", "e", " ", ":", ":", " ", "O", "t", "h", "e", "r", "/", "P", "r", "o", "p", "r", "i", "e", "t", "a", "r", "y", " ", "L", "i", "c", "e", "n", "s", "e">>

TopicClassifier == <<"T", "o", "p", "i", "c", " ", ":", ":", " ", "U", "t", "i", "l", "i", "t", "i", "e", "s">>

\* info["info"]["classifiers"]
ClassifierLists ==
    { <<>>,
      <<TopicClassifier, MITClassifier>>,
      <<OtherClassifier, MITClassifier>>,
      <<OtherClassifier>> }

\* the values of --default-license: not given, or a license
DefaultLicenses == {None, <<"C", "L", "O", "S", "E", "D">>}

LicenseInit ==
    /\ AtRest
    /\ LICENSES = LicenseTable
    /\ default_license \in DefaultLicenses
    /\ calls = <<>>

TranslateLicense(license, classifiers, answer) ==
    /\ Len(calls) < MaxCalls
    /\ LET t == translate_license(license, classifiers, default_license,
                                  LICENSES, answer)
       IN  /\ LICENSES' = t.table
           /\ calls' = Append(calls,
                  [license |-> license, classifiers |-> classifiers,
                   default_license |-> default_license, answer |-> answer,
                   before |-> LICENSES, after |-> t.table,
                   value |-> t.license, prompted |-> t.prompted])
    /\ UNCHANGED <<registry, PROCESSED_PACKAGES, follow_extras,
                   default_license, mode, pc, result, packages, stack, nRoots,
                   history, recipes>>

LicenseNext ==
    \E license \in DeclaredLicenses, classifiers \in ClassifierLists,
       answer \in Answers : TranslateLicense(license, classifiers, answer)

LicenseSpec == LicenseInit /\ [][LicenseNext]_vars

(***************************************************************************)
(* generate_recipes on its own: main stands after gathering with a result  *)
(* of two Packages, the first with any list of at most MaxDeps             *)
(* dependencies (with extras only when follow_extras is set).              *)
(***************************************************************************)
MaxDeps == 3

EmitDependencies ==
    { Dependency(NameB, None, None), Dependency(NameB, None, <<"x">>),
      Dependency(NameC, V10, <<"x">>), Dependency(NameC, None, <<"y">>) }

EmitInit ==
    /\ registry = CHOOSE r \in Registries : TRUE
    /\ LICENSES = LicenseTable
    /\ follow_extras \in BOOLEAN
    /\ default_license = None
    /\ mode \in {"requirements", "package"}
    /\ pc = IF mode = "package" THEN "finish" ELSE "gather"
    /\ \E deps \in SeqsUpTo(EmitDependencies, MaxDeps) :
          /\ follow_extras \/ \A i \in DOMAIN deps : ~Truthy(deps[i].extra)
          /\ result = << Package(NameA, V10, <<"M", "I", "T">>, deps),
                         Package(NameB, V20, <<"M", "I", "T">>, <<>>) >>
    /\ PROCESSED_PACKAGES = result
    /\ packages = result
    /\ stack = <<>>
    /\ nRoots = 1
    /\ history = [requests |-> <<>>, urls |-> <<>>, lists |-> <<>>,
                  seeded |-> <<>>, lines |-> <<>>]
    /\ recipes = <<>>
    /\ calls = <<>>

EmitSpec == EmitInit /\ [][EndRun]_vars

(***************************************************************************)
(* Reading the observations.                                               *)
(***************************************************************************)
Requests == DOMAIN history.requests
Req(r) == history.requests[r]

\* the request has a frame on the stack
Active(r) == \E k \in DOMAIN stack : stack[k].req = r

\* the Package a request appended
Appended(r) == PROCESSED_PACKAGES[Req(r).entry]

Children(p) == {q \in Requests : Req(q).parent = p}

\* p is r or a request r descends from
RECURSIVE AncestorOrSelf(_, _)
AncestorOrSelf(p, r) ==
    IF p = r THEN TRUE
    ELSE IF Req(r).parent = 0 THEN FALSE
    ELSE AncestorOrSelf(p, Req(r).parent)

NoRepeatedName(list) ==
    \A i, j \in DOMAIN list : i # j => list[i].name # list[j].name

\* the list a root call returned
ListOf(k) == history.lists[k].list

\* the comparator ranks the requested version strictly greater than v
RanksGreater(version, v) == compare_versions(version, v) = Returned(1)
\* the comparator ranks the requested version not greater than v
RanksNotGreater(version, v) ==
    LET c == compare_versions(version, v) IN ~c.exc /\ c.val # 1

Fetched(r) == \E u \in DOMAIN history.urls : history.urls[u].req = r

(***************************************************************************)
(* C1.  In the final result list of a run no package name appears more     *)
(* than once: a package requested several times in one run yields one      *)
(* Package in the list.                                                    *)
(***************************************************************************)
C1_OncePerRun == pc = "done" => NoRepeatedName(result)

(***************************************************************************)
(* C2.  A request for a package at a version the comparator ranks          *)
(* strictly greater than the version at which the package already stands   *)
(* in PROCESSED_PACKAGES prints the warning and is skipped: it fetches     *)
(* nothing from the registry and appends no second entry.                  *)
(***************************************************************************)
C2_ConflictSkipped ==
    \A r \in Requests :
        (\E i \in DOMAIN Req(r).known : RanksGreater(Req(r).version, Req(r).known[i]))
        => /\ Req(r).warned # <<>>
           /\ Req(r).skipped
           /\ Req(r).entry = 0
           /\ ~Fetched(r)

(***************************************************************************)
(* C3.  Every request, a root request as well as a dependency request,     *)
(* for a name that stands in PROCESSED_PACKAGES at a version the           *)
(* requested one is not ranked greater than, is skipped before any         *)
(* registry query, and appends nothing.                                    *)
(***************************************************************************)
C3_SkipBeforeQuery ==
    \A r \in Requests :
        (\E i \in DOMAIN Req(r).known : RanksNotGreater(Req(r).version, Req(r).known[i]))
        => /\ Req(r).skipped
           /\ Req(r).entry = 0
           /\ ~Fetched(r)

(***************************************************************************)
(* C4.  resolve terminates on every finite registry, cyclic ones           *)
(* included: a package stands in PROCESSED_PACKAGES before its             *)
(* dependencies are requested, so a request that closes a cycle is         *)
(* skipped, and the requests that are not skipped are bounded.             *)
(***************************************************************************)
\* a frame that walks its dependencies has appended its Package
C4_RecordedBeforeWalk ==
    \A k \in DOMAIN stack :
        stack[k].pc = "walk"
        => /\ Req(stack[k].req).entry # 0
           /\ Appended(stack[k].req).name = PackageName(stack[k].package)

\* the request names a package an ancestor of it appended
ClosesCycle(q) ==
    /\ Req(q).parent # 0
    /\ \E p \in Requests :
          /\ AncestorOrSelf(p, Req(q).parent)
          /\ Req(p).entry # 0
          /\ Appended(p).name = PackageName(Req(q).package)

C4_CycleSkipped == \A q \in Requests : ClosesCycle(q) => Req(q).skipped

\* the requests of one root call that were not skipped
NotSkipped(root) == {q \in Requests : Req(q).root = root /\ ~Req(q).skipped}

\* the releases of the registry and the longest requires_dist among them
ReleaseCount == LET n == Len(registry[NameA]) + Len(registry[NameB]) + Len(registry[NameC]) IN n
LongestRequiresDist ==
    CHOOSE d \in 0..4 :
        /\ \A n \in Names : \A k \in DOMAIN registry[n] :
              Len(registry[n][k].requires_dist) + Len(registry[n][k].metadata) <= d
        /\ \E n \in Names : \E k \in DOMAIN registry[n] :
              Len(registry[n][k].requires_dist) + Len(registry[n][k].metadata) = d

\* a call that has started stands at a step it can take, and the requests of a
\* root call that are not skipped are no more than the root and the
\* dependencies of the Packages the registry can give rise to
C4_Bounded ==
    /\ stack # <<>> => Top.pc \in {"try", "walk"}
    /\ \A q \in Requests :
          Req(q).parent = 0
          => Cardinality(NotSkipped(q)) <= 1 + (1 + ReleaseCount) * LongestRequiresDist

\* C4: a Package is recorded before its dependencies are requested, every
\* request that closes a cycle is skipped, and the requests that are not
\* skipped are bounded, so that every call returns
C4_CyclesCut == C4_RecordedBeforeWalk /\ C4_CycleSkipped /\ C4_Bounded

(***************************************************************************)
(* C5.  When a dependency B of A fails (no sdist, or anything else in its  *)
(* own querying, introspecting or dependency walk), A is in the result     *)
(* list, B is not, A still requests all its other dependencies, and A is   *)
(* not reported failed.                                                    *)
(***************************************************************************)
\* the call has returned
Finished(r) == ~Active(r)

\* a request that walked its dependencies and returned has requested each
RequestedAll(p) ==
    (Req(p).entry # 0 /\ Finished(p))
    => \A d \in DOMAIN Appended(p).dependencies :
          \E q \in Children(p) : Req(q).dep = d

C5_FailureIsolated ==
    \A r \in Requests :
        (Req(r).parent # 0 /\ Req(r).reported)
        => /\ Req(r).entry = 0
           /\ Req(Req(r).parent).entry # 0
           /\ ~Req(Req(r).parent).reported
           /\ RequestedAll(Req(r).parent)

(***************************************************************************)
(* C6.  A failure raised anywhere in the handling of a request, its skip   *)
(* check included, is reported against that request: it never makes the    *)
(* parent reported failed and never keeps the parent from requesting its   *)
(* remaining dependencies.                                                 *)
(***************************************************************************)
C6_CaughtAtOwnBoundary ==
    \A r \in Requests :
        Req(r).raised
        => /\ Req(r).reported
           /\ ~Req(Req(r).parent).reported
           /\ RequestedAll(Req(r).parent)

(***************************************************************************)
(* C7.  The list of a root call is in depth-first pre-order of first       *)
(* resolution: the root is first, a Package comes after the Package whose  *)
(* walk requested it, and the subtree of one dependency is complete        *)
(* before the next dependency is requested.                                *)
(***************************************************************************)
\* the root call made last: packages is its list
LatestRoot(r) ==
    /\ Req(r).parent = 0
    /\ \A q \in Requests : Req(q).parent = 0 => q <= r

\* the request of the same root call whose Package stands at a place
At(root, place) ==
    CHOOSE q \in Requests : Req(q).root = root /\ Req(q).place = place

C7_PreOrder ==
    \A r \in Requests :
        Req(r).entry # 0
        => /\ LatestRoot(Req(r).root)
              => /\ Req(r).place \in DOMAIN packages
                 /\ packages[Req(r).place] = Appended(r)
           /\ Req(r).parent = 0 => Req(r).place = 1
           /\ Req(r).parent # 0
              => /\ Req(Req(r).parent).place # 0
                 /\ Req(Req(r).parent).place < Req(r).place
                 /\ AncestorOrSelf(Req(r).parent, At(Req(r).root, Req(r).place - 1))
           /\ \A q \in Children(Req(r).parent) :
                 (Req(r).parent # 0 /\ Req(r).dep < Req(q).dep)
                 => /\ Finished(r)
                    /\ Req(q).entry # 0 => Req(r).place < Req(q).place

\* a root call has returned a list in which a Package requested by a
\* dependency stands between that dependency and a later dependency of the root
C7_Witness ==
    \E r, q, t, u \in Requests :
        /\ Req(r).parent = 0 /\ Finished(r) /\ Req(r).place = 1
        /\ Req(q).parent = r /\ Req(q).place = 2
        /\ Req(t).parent = q /\ Req(t).place = 3
        /\ Req(u).parent = r /\ Req(u).dep > Req(q).dep
        /\ Len(packages) >= 3 /\ LatestRoot(r)

(***************************************************************************)
(* C8.  Two root calls of get_package_info for the same package and        *)
(* version, with the same follow_extras and default_license and against    *)
(* the same registry, return identical ordered lists.                      *)
(***************************************************************************)
C8_Deterministic ==
    \A i, j \in DOMAIN history.lists :
        (/\ Req(history.lists[i].root).package = Req(history.lists[j].root).package
         /\ Req(history.lists[i].root).version = Req(history.lists[j].root).version
         /\ Req(history.lists[i].root).follow = Req(history.lists[j].root).follow)
        => ListOf(i) = ListOf(j)

(***************************************************************************)
(* C9.  Nothing but the license table survives from one root call of       *)
(* get_package_info to the next: when a root call starts,                  *)
(* PROCESSED_PACKAGES holds what was seeded from the existing-packages     *)
(* file and no Package of an earlier call.                                 *)
(***************************************************************************)
C9_NothingRetained ==
    \A r \in Requests : Req(r).parent = 0 => Req(r).before = history.seeded

(***************************************************************************)
(* C10.  Without follow_extras a specifier with an extra tag is not        *)
(* recorded among the dependencies of the Package and gives no request,    *)
(* so a Package of the result was requested by a specifier without one.    *)
(***************************************************************************)
RECURSIVE MentionsExtra(_)
MentionsExtra(marker) ==
    IF marker = <<>> THEN FALSE
    ELSE IF marker[1] \in {"and", "or"}
    THEN MentionsExtra(marker[2]) \/ MentionsExtra(marker[3])
    ELSE marker[2] = "extra"

HasExtraTag(spec) == MentionsExtra(spec.marker)
HasNoExtraTag(spec) == ~HasExtraTag(spec)

\* the specifiers the registry gives for the release a Package was made of
SpecifiersOf(package) ==
    LET releases == registry[package.name]
        release == releases[CHOOSE k \in DOMAIN releases :
                                releases[k].version = package.version]
    IN  IF release.declared THEN release.requires_dist ELSE release.metadata

C10_ExtrasGated ==
    \A r \in Requests :
        (Req(r).entry # 0 /\ ~Req(r).follow)
        => LET specs == SpecifiersOf(Appended(r))
               recorded == Appended(r).dependencies
           IN  /\ \A i \in DOMAIN specs :
                     HasExtraTag(specs[i])
                     => \A d \in DOMAIN recorded : recorded[d] # parse_requires_dist(specs[i])
               /\ \A d \in DOMAIN recorded :
                     \E i \in DOMAIN specs :
                        /\ HasNoExtraTag(specs[i])
                        /\ recorded[d] = parse_requires_dist(specs[i])
               /\ \A q \in Children(r) :
                     /\ Req(q).dep \in DOMAIN recorded
                     /\ Req(q).package = recorded[Req(q).dep].name
               /\ Req(r).parent # 0
                  => \E i \in DOMAIN SpecifiersOf(Appended(Req(r).parent)) :
                        /\ HasNoExtraTag(SpecifiersOf(Appended(Req(r).parent))[i])
                        /\ SpecifiersOf(Appended(Req(r).parent))[i].name = Req(r).package

\* main has ended without follow_extras, the root gives a specifier with an
\* extra tag, and the package it names is not in the result
C10_Witness ==
    \E r \in Requests :
        /\ pc = "done" /\ ~follow_extras
        /\ Req(r).parent = 0 /\ Req(r).entry # 0
        /\ \E i \in DOMAIN SpecifiersOf(Appended(r)) :
              /\ HasExtraTag(SpecifiersOf(Appended(r))[i])
              /\ \A e \in DOMAIN result :
                    result[e].name # SpecifiersOf(Appended(r))[i].name
        /\ Len(result) >= 2

(***************************************************************************)
(* C11.  With follow_extras, generate_recipes writes for each Package      *)
(* exactly one extra recipe per distinct extra among its dependencies,     *)
(* named <package>-<extra>, whose dependencies are the Package itself      *)
(* followed by the dependencies with that extra, in their order.           *)
(***************************************************************************)
\* the extras among the dependencies of a Package
ExtrasOf(package) ==
    {package.dependencies[i].extra : i \in DOMAIN package.dependencies} \ {None, <<>>}

\* the dependencies of a Package that carry an extra, in their order
Carrying(package, extra) ==
    LET tagged == SelectSeq(package.dependencies, LAMBDA d : d.extra = extra)
    IN  [i \in DOMAIN tagged |-> Dependency(tagged[i].name, tagged[i].version, None)]

\* the extra recipes written for a Package and an extra
ExtraRecipesOf(package, extra) ==
    {i \in DOMAIN recipes :
        /\ recipes[i].is_extra
        /\ recipes[i].package.name = package.name \o <<"-">> \o extra
        /\ recipes[i].package.version = package.version}

RECURSIVE CountExtras(_)
CountExtras(pkgs) ==
    IF pkgs = <<>> THEN 0
    ELSE Cardinality(ExtrasOf(Head(pkgs))) + CountExtras(Tail(pkgs))

C11_ExtraRecipes ==
    (pc = "done" /\ follow_extras)
    => /\ \A k \in DOMAIN result : \A extra \in ExtrasOf(result[k]) :
             /\ Cardinality(ExtraRecipesOf(result[k], extra)) = 1
             /\ \A i \in ExtraRecipesOf(result[k], extra) :
                   /\ recipes[i].package.dependencies =
                         <<Dependency(result[k].name, result[k].version, None)>>
                         \o Carrying(result[k], extra)
                   /\ Len(recipes[i].dependencies) = 1 + Len(Carrying(result[k], extra))
       /\ Cardinality({i \in DOMAIN recipes : recipes[i].is_extra}) = CountExtras(result)

\* the recipes of a Package are written whose dependencies carry two
\* extras, one of them twice with the other in between
C11_Witness ==
    /\ pc = "done" /\ follow_extras
    /\ \E k \in DOMAIN result :
          /\ Len(result[k].dependencies) = 3
          /\ result[k].dependencies[1].extra = <<"x">>
          /\ result[k].dependencies[2].extra = <<"y">>
          /\ result[k].dependencies[3].extra = <<"x">>
          /\ Cardinality(ExtrasOf(result[k])) = 2
    /\ Len(recipes) = 4

(***************************************************************************)
(* C12.  compare_versions is antisymmetric: for all version strings a and  *)
(* b, the empty string included, compare_versions(a, b) is the negation    *)
(* of compare_versions(b, a).                                              *)
(***************************************************************************)
VersionStrings == Versions \ {None}

C12_Antisymmetric ==
    \A k \in DOMAIN calls :
        (calls[k].version1 \in VersionStrings /\ calls[k].version2 \in VersionStrings)
        => LET back == compare_versions(calls[k].version2, calls[k].version1)
           IN  /\ ~calls[k].result.exc
               /\ ~back.exc
               /\ calls[k].result.val = 0 - back.val

(***************************************************************************)
(* C13.  compare_versions is reflexive: compare_versions(a, a) returns 0   *)
(* for every version string a.                                             *)
(***************************************************************************)
C13_Reflexive ==
    \A k \in DOMAIN calls :
        (calls[k].version1 \in VersionStrings /\ calls[k].version2 = calls[k].version1)
        => calls[k].result = Returned(0)

(***************************************************************************)
(* C14.  compare_versions is total: for every pair of operands, empty or   *)
(* absent ones and versions that mix numbers and other tokens included,    *)
(* it returns -1, 0 or 1 and never raises.                                 *)
(***************************************************************************)
C14_NeverRaises ==
    \A k \in DOMAIN calls :
        /\ ~calls[k].result.exc
        /\ calls[k].result.val \in {-1, 0, 1}

(***************************************************************************)
(* C20.  compare_versions compares the parts pairwise over the overlapping *)
(* prefix only: an absent or empty first operand is less; otherwise the    *)
(* result is that of the first pair of parts that differ, by value where   *)
(* both are numbers and by the order of strings where both are tokens; and *)
(* when no pair of the overlapping prefix differs the versions are equal.  *)
(***************************************************************************)
Overlap(p1, p2) == 1 .. (IF Len(p1) < Len(p2) THEN Len(p1) ELSE Len(p2))

Differing(p1, p2) == {i \in Overlap(p1, p2) : p1[i] # p2[i]}

FirstDiffering(p1, p2) ==
    CHOOSE i \in Differing(p1, p2) : \A j \in Differing(p1, p2) : i <= j

RECURSIVE Trimmed(_)
Trimmed(s) ==
    IF s # <<>> /\ s[1] \in {"'", "\"", " "} THEN Trimmed(Tail(s))
    ELSE IF s # <<>> /\ s[Len(s)] \in {"'", "\"", " "}
    THEN Trimmed(SubSeq(s, 1, Len(s) - 1))
    ELSE s

\* the declared license is not empty and, trimmed, is a key of the table
DeclaredHit(c) ==
    c.license \notin {None, <<>>} /\ Trimmed(c.license) \in DOMAIN c.before

\* the positions of the license classifiers that are keys of the table
MappedClassifiers(c) ==
    {i \in 1..Len(c.classifiers) :
        /\ StartsWith(c.classifiers[i], <<"L", "i", "c", "e", "n", "s", "e">>)
        /\ c.classifiers[i] \in DOMAIN c.before}

TotalMiss(c) == ~DeclaredHit(c) /\ MappedClassifiers(c) = {}

(***************************************************************************)
(* C15.  A declared license that is not empty and, without the quotes and  *)
(* whitespace around it, is a key of licenses.LICENSES is translated to    *)
(* the entry of that key, whatever the classifiers and the default license *)
(* are, without a prompt and without a change of licenses.LICENSES.        *)
(***************************************************************************)
C15_DeclaredHit ==
    \A k \in DOMAIN calls :
        DeclaredHit(calls[k]) =>
            /\ calls[k].value = calls[k].before[Trimmed(calls[k].license)]
            /\ ~calls[k].prompted
            /\ calls[k].after = calls[k].before

(***************************************************************************)
(* C16.  When the declared license is empty, absent or no key, and some    *)
(* license classifier of the list is a key of licenses.LICENSES, wherever  *)
(* it stands, the entry of such a classifier is returned, the default      *)
(* license is not, and there is no prompt.                                 *)
(***************************************************************************)
C16_ClassifierFallback ==
    \A k \in DOMAIN calls :
        (~DeclaredHit(calls[k]) /\ MappedClassifiers(calls[k]) # {}) =>
            /\ \E i \in MappedClassifiers(calls[k]) :
                   calls[k].value = calls[k].before[calls[k].classifiers[i]]
            /\ ~calls[k].prompted
            /\ calls[k].after = calls[k].before

(***************************************************************************)
(* C17.  On a total miss without a default license the answer of the       *)
(* operator is returned and stored in licenses.LICENSES under the declared *)
(* license as it was given; no other entry changes.                        *)
(***************************************************************************)
C17_LearnedUnderOriginalKey ==
    \A k \in DOMAIN calls :
        (TotalMiss(calls[k]) /\ ~Truthy(calls[k].default_license)) =>
            /\ calls[k].prompted
            /\ calls[k].value = calls[k].answer
            /\ DOMAIN calls[k].after = DOMAIN calls[k].before \cup {calls[k].license}
            /\ calls[k].after[calls[k].license] = calls[k].answer
            /\ \A key \in DOMAIN calls[k].before \ {calls[k].license} :
                   calls[k].after[key] = calls[k].before[key]

\* a declared license in quotes was learned: the entry stands under the
\* string with its quotes, and none was made for the string without them
C17_Witness ==
    \E k \in DOMAIN calls :
        /\ calls[k].license = <<"'", "z", "z", "'">>
        /\ calls[k].prompted
        /\ calls[k].after[calls[k].license] = calls[k].answer
        /\ <<"z", "z">> \notin DOMAIN calls[k].after

(***************************************************************************)
(* C18.  Once a call has prompted for a declared license, every later call *)
(* of the process with the same declared license and the same classifiers  *)
(* returns what the operator answered and does not prompt again.           *)
(***************************************************************************)
C18_LearnedPersists ==
    \A i, j \in DOMAIN calls :
        (/\ i < j
         /\ calls[i].prompted
         /\ calls[j].license = calls[i].license
         /\ calls[j].classifiers = calls[i].classifiers) =>
            /\ calls[j].value = calls[i].answer
            /\ ~calls[j].prompted

(***************************************************************************)
(* C19.  The default license is what a call returns exactly when the call  *)
(* is a total miss and a default license is configured; then there is no   *)
(* prompt and licenses.LICENSES is unchanged.  Without a default license a *)
(* total miss prompts.                                                     *)
(***************************************************************************)
C19_DefaultExactlyOnTotalMiss ==
    \A k \in DOMAIN calls :
        /\ (TotalMiss(calls[k]) /\ Truthy(calls[k].default_license)) =>
               /\ calls[k].value = calls[k].default_license
               /\ ~calls[k].prompted
               /\ calls[k].after = calls[k].before
        /\ (~TotalMiss(calls[k]) /\ Truthy(calls[k].default_license)) =>
               calls[k].value # calls[k].default_license
        /\ (TotalMiss(calls[k]) /\ ~Truthy(calls[k].default_license)) =>
               calls[k].prompted

(***************************************************************************)
(* C21.  For a wildcard request the version chosen is the                  *)
(* lexicographically greatest of the versions of the registry whose        *)
(* segment equals the segment of the pattern at every position where the   *)
(* pattern has no wildcard, positions after a wildcard included, whatever  *)
(* the order of the releases in the registry's document.                   *)
(***************************************************************************)
Segments(version) == StrSplit(version, ".")

MatchesPattern(version, pattern) ==
    \A j \in 1..Len(Segments(pattern)) :
        Segments(pattern)[j] # <<"*">> =>
            /\ j <= Len(Segments(version))
            /\ Segments(version)[j] = Segments(pattern)[j]

Matching(releases, pattern) ==
    {releases[k].version : k \in {i \in DOMAIN releases : MatchesPattern(releases[i].version, pattern)}}

Greatest(versions) ==
    CHOOSE v \in versions : \A w \in versions : w = v \/ StrLess(w, v)

\* the calls with a wildcard request that chose a version
WildcardCalls ==
    {k \in DOMAIN calls : /\ Truthy(calls[k].version)
                          /\ HasWildcard(calls[k].version)
                          /\ calls[k].result.ok}

C21_GreatestMatch ==
    \A k \in WildcardCalls :
        LET m == Matching(registry[calls[k].package], calls[k].version)
        IN  /\ m # {}
            /\ calls[k].result.version = Greatest(m)

(***************************************************************************)
(* C22.  The file passed to get_package_file_info for a version is the     *)
(* file of that release with the smallest weighted size (pkg_size: the     *)
(* size of a source tarball, 10 times the size of a zip, 10000 times the   *)
(* size of anything else), whatever the order of the files of the release. *)
(***************************************************************************)
Lightest(files) ==
    CHOOSE f \in {files[i] : i \in DOMAIN files} :
        \A i \in DOMAIN files : pkg_size(f) <= pkg_size(files[i])

C22_SmallestWeightedSize ==
    \A k \in DOMAIN calls :
        LET releases == registry[calls[k].package]
            chosen == {i \in DOMAIN releases : releases[i].version = calls[k].result.version}
        IN  calls[k].result.ok =>
                \A i \in chosen :
                    calls[k].result.artifact = Lightest(releases[i].files)

(***************************************************************************)
(* C23.  The version of the Dependency parsed from a specifier is the      *)
(* version of its clause when the clause is "==" or "<=", and None for     *)
(* ">=", for any other relation and for no clause; for a specifier of      *)
(* several clauses it does not depend on the order of the clauses.         *)
(***************************************************************************)
ClauseDecision(clause) ==
    IF clause[1] \in {"==", "<="} THEN clause[2] ELSE None

Reversed(a) == [i \in DOMAIN a |-> a[Len(a) + 1 - i]]

C23_VersionDecided ==
    \A k \in DOMAIN calls :
        LET spec == calls[k].requires_dist
            other == [spec EXCEPT !.versions = Reversed(spec.versions)]
        IN  /\ Len(spec.versions) = 0 => calls[k].result.version = None
            /\ Len(spec.versions) = 1 =>
                   calls[k].result.version = ClauseDecision(spec.versions[1])
            /\ calls[k].result.version = parse_requires_dist(other).version

(***************************************************************************)
(* C24.  When gathering is over, for every dependency in the dependency    *)
(* list of a Package of the result, the name of the dependency stands in   *)
(* PROCESSED_PACKAGES or a failure was reported for a request of it: no    *)
(* dependency of a resolved package is left unrequested.                   *)
(***************************************************************************)
Processed(name) ==
    \E k \in DOMAIN PROCESSED_PACKAGES : PROCESSED_PACKAGES[k].name = name

FailureReported(name) ==
    \E q \in Requests : PackageName(Req(q).package) = name /\ Req(q).reported

C24_EveryDependencyAttempted ==
    pc = "done" =>
        \A i \in DOMAIN result :
            \A d \in DOMAIN result[i].dependencies :
                LET name == PackageName(result[i].dependencies[d].name)
                IN  Processed(name) \/ FailureReported(name)

(***************************************************************************)
(* C25.  PROCESSED_PACKAGES and the result list change only by an append   *)
(* at the end; a step that resolves a package appends the same Package to  *)
(* both; hence every element of the result list is in PROCESSED_PACKAGES,  *)
(* and PROCESSED_PACKAGES is what main seeded followed by the packages     *)
(* resolved so far, in the order of their resolution.                      *)
(***************************************************************************)
\* the result list of the run: what parse_requirements or main holds, with
\* packages[0] of the root call in progress
ResultList ==
    IF stack = <<>> THEN result
    ELSE IF mode = "requirements" THEN result \o packages
    ELSE packages

ResultListNext ==
    IF stack' = <<>> THEN result'
    ELSE IF mode' = "requirements" THEN result' \o packages'
    ELSE packages'

IsPrefix(a, b) == Len(a) <= Len(b) /\ SubSeq(b, 1, Len(a)) = a

C25_Step ==
    /\ IsPrefix(PROCESSED_PACKAGES, PROCESSED_PACKAGES')
    /\ IsPrefix(ResultList, ResultListNext)
    /\ pc # "idle" =>
           \/ /\ PROCESSED_PACKAGES' = PROCESSED_PACKAGES
              /\ ResultListNext = ResultList
           \/ \E k \in DOMAIN PROCESSED_PACKAGES' :
                 /\ PROCESSED_PACKAGES' = Append(PROCESSED_PACKAGES, PROCESSED_PACKAGES'[k])
                 /\ ResultListNext = Append(ResultList, PROCESSED_PACKAGES'[k])

C25_State ==
    /\ \A i \in DOMAIN ResultList :
           \E k \in DOMAIN PROCESSED_PACKAGES : PROCESSED_PACKAGES[k] = ResultList[i]
    /\ PROCESSED_PACKAGES = history.seeded \o ResultList

C25_AppendOnly == [][C25_Step]_vars /\ []C25_State

\* a package was seeded and a second root call has resolved a package after
\* the first one did
C25_Witness ==
    /\ history.seeded # <<>>
    /\ stack # <<>>
    /\ result # <<>>
    /\ packages # <<>>
    /\ PROCESSED_PACKAGES = history.seeded \o result \o packages

(***************************************************************************)
(* C27.  A request for which a failure was reported has appended no        *)
(* Package: no Package of the final result list was reported as failed by  *)
(* the request that appended it.                                           *)
(***************************************************************************)
C27_ResolvedOrFailed ==
    \A r \in Requests : Req(r).reported => Req(r).entry = 0

(***************************************************************************)
(* C26.  Whenever get_package_file_info, or the download made for          *)
(* requires_dist, returns or raises, the file it downloaded and the        *)
(* directory it unpacked to no longer exist.                               *)
(***************************************************************************)
C26_ScratchReleased ==
    \A k \in DOMAIN calls :
        \A path \in calls[k].after :
            /\ calls[k].output # <<>> => ~Under(calls[k].output, path)
            /\ calls[k].tmpdir # <<>> => ~Under(calls[k].tmpdir, path)

\* get_package_file_info raised after it had unpacked an archive in which
\* it found no license file, and a download for requires_dist was cut
C26_Witness ==
    \E k, m \in DOMAIN calls :
        /\ calls[k].function = "get_package_file_info"
        /\ calls[k].archive.dir
        /\ calls[k].archive.files = {}
        /\ calls[k].exc
        /\ calls[k].after = {}
        /\ calls[m].function = "fetch_requirements_from_remote_package"
        /\ calls[m].archive.download = "cut"
        /\ calls[m].exc
        /\ calls[m].after = {}

(***************************************************************************)
(* C28.  The Packages of the final result list are written to recipe files *)
(* of different names python-name_version.bb: no two entries of the result *)
(* list have names that package_to_bb_name makes the same and the same     *)
(* version, so no recipe is overwritten by that of another entry.          *)
(***************************************************************************)
RecipePath(package) == generate_recipe(package, PythonArg, FALSE).basename

C28_DistinctRecipePaths ==
    pc = "done" =>
        \A i, j \in DOMAIN result :
            i # j => RecipePath(result[i]) # RecipePath(result[j])

====
